---- MODULE Spec2Model ----
(***************************************************************************)
(* A model of the screen-space-reflections effect controller (SSREffect)   *)
(* and of the compose pass' fragment shader.                               *)
(*                                                                         *)
(* SSREffect owns two passes.  ReflectionsPass (the ray-marcher) and       *)
(* TemporalResolvePass (the resolver) are imported by SSREffect but their  *)
(* files are not part of the sources at hand: what the model needs of them *)
(* (their setSize, their render, the resolver's sample counter and its     *)
(* two accumulation buffers) is written from the design document and is    *)
(* marked so in the model map.  Everything of SSREffect itself, and the    *)
(* blend of ComposeReflectionsPass' shader, is translated from the code.   *)
(*                                                                         *)
(* Encoding of values.  Every JavaScript value is an integer:              *)
(*   Undefined and Absent are negative sentinels;                          *)
(*   true/false are 1/0;                                                   *)
(*   the values of the keys that become shader defines (MAX_STEPS,         *)
(*   NUM_BINARY_SEARCH_STEPS, CLAMP_RADIUS) are in tenths, so that         *)
(*   parseInt and Math.round are not the identity (305 is 30.5).           *)
(***************************************************************************)
EXTENDS Integers, Sequences, FiniteSets, TLC

VARIABLES
    options,                 \* the options object closed over by the accessors
    dpr,                     \* window.devicePixelRatio read by makeOptionsReactive
    samples,                 \* SSREffect.samples, the field the setter writes
    uniforms,                \* the uniforms of the final effect material
    lastSize,                \* SSREffect.lastSize (the SizeSnapshot)
    tr,                      \* SSREffect.temporalResolvePass
    rp,                      \* SSREffect.reflectionsPass
    usingBoxProjectedEnvMap, \* SSREffect.usingBoxProjectedEnvMap
    log,                     \* what the last call did to its collaborators, in order
    call,                    \* the last call and its arguments
    sinceReset,              \* updates completed since the last invalidation (history)
    nCalls,                  \* calls made since construction
    px                       \* one pixel of the compose shader: inputs and output

vars == <<options, dpr, samples, uniforms, lastSize, tr, rp,
          usingBoxProjectedEnvMap, log, call, sinceReset, nCalls, px>>

-----------------------------------------------------------------------------
(* Bounds of the exploration.                                              *)

\* calls explored after construction
MaxCalls == 3

-----------------------------------------------------------------------------
(* Values.                                                                 *)

Undefined == -1
Absent == -2

\* JavaScript truthiness of an encoded value
Truthy(v) == v \notin {0, Undefined}

\* parseInt that keeps the fraction
ParseInt_KeepsFraction(v) == v

\* parseInt on a non-negative number in tenths: the fraction is dropped
ParseInt(v) == (v \div 10) * 10

\* Math.round on a non-negative number in tenths: halves round up
MathRound(v) == ((v + 5) \div 10) * 10

\* the allow-list with blurMix left out
noResetSamplesProperties_WithoutBlurMix == {"blurSharpness", "blurKernelSize"}

\* all the properties for which we don't have to resample
noResetSamplesProperties == {"blurMix", "blurSharpness", "blurKernelSize"}

\* the options of the temporal resolve pass, spread last into the options
trOptions == <<"BOX_BLUR", "DILATION">>

\* Object.keys(options): the keys of the defaults, then those trOptions adds
KeyOrder ==
    <<"width", "height", "resolutionScale", "velocityResolutionScale",
      "blurMix", "blurSharpness", "blurKernelSize",
      "MAX_STEPS", "NUM_BINARY_SEARCH_STEPS", "ALLOW_MISSED_RAYS", "CLAMP_RADIUS",
      "temporalResolveMix", "temporalResolveCorrection", "colorExponent",
      "intensity">> \o trOptions

Keys == {KeyOrder[i] : i \in 1..Len(KeyOrder)}

\* Object.keys(reflectionsPass.fullscreenMaterial.uniforms) among the option keys
reflectionPassFullscreenMaterialUniformsKeys == {"intensity"}

\* the values a caller assigns to a key
Values(key) ==
    CASE key \in {"width", "height"} -> {2, 3, Undefined}
      [] key \in {"resolutionScale", "velocityResolutionScale"} -> {1, 2}
      [] key \in {"MAX_STEPS", "NUM_BINARY_SEARCH_STEPS"} -> {200, 305}
      [] key = "CLAMP_RADIUS" -> {10, 15}
      [] OTHER -> {0, 1}

\* the options a controller is constructed with
DefaultOptions(w, h) ==
    [k \in Keys |->
        CASE k = "width" -> w
          [] k = "height" -> h
          [] k \in {"resolutionScale", "velocityResolutionScale"} -> 1
          [] k \in {"MAX_STEPS", "NUM_BINARY_SEARCH_STEPS"} -> 200
          [] k = "CLAMP_RADIUS" -> 10
          [] k \in {"BOX_BLUR", "DILATION"} -> 1
          [] OTHER -> 0]

\* one thing a call did to a collaborator
Event(e, a, b, c) == [ev |-> e, a |-> a, b |-> b, c |-> c]

\* String.prototype.replace with a string pattern, on a text held as a sequence
\* of tokens: the first occurrence is replaced, the text is kept when there is none
ReplaceFirst(text, pat, rep) ==
    LET hits == {i \in 1..(Len(text) - Len(pat) + 1) :
                    SubSeq(text, i, i + Len(pat) - 1) = pat}
    IN IF hits = {} THEN text
       ELSE LET i == CHOOSE j \in hits : \A k \in hits : j <= k
            IN SubSeq(text, 1, i - 1) \o rep \o SubSeq(text, i + Len(pat), Len(text))

-----------------------------------------------------------------------------
(* The two passes.  Their files are not among the sources: their state is  *)
(* what SSREffect reads and writes of them, their methods follow the       *)
(* design document.                                                        *)

NoTexture == [kind |-> "none", position |-> 0, size |-> 0]

\* the ray-marcher's fragment shader before any patch: it declares worldPos locally
reflectionsFragmentShader ==
    <<"void main() {", "vec3", "worldPos", "=", "getWorldPos();", "}">>

\* new TemporalResolvePass(scene, camera, trCompose, options)
NewTemporalResolvePass ==
    [samples |-> 0,
     width |-> Undefined, height |-> Undefined,
     velocityResolutionScale |-> 1,
     defines |-> [d \in {"CLAMP_RADIUS"} |-> Absent],
     needsUpdate |-> FALSE,
     uniforms |-> [u \in {"temporalResolveMix", "temporalResolveCorrection",
                          "colorExponent"} |-> 0],
     read |-> 0, write |-> 1]

\* new ReflectionsPass(this, options)
NewReflectionsPass ==
    [width |-> Undefined, height |-> Undefined,
     defines |-> [d \in {"MAX_STEPS", "NUM_BINARY_SEARCH_STEPS", "ALLOW_MISSED_RAYS",
                         "BOX_PROJECTED_ENV_MAP"} |-> Absent],
     needsUpdate |-> FALSE,
     uniforms |-> [u \in reflectionPassFullscreenMaterialUniformsKeys |-> 0],
     envMap |-> NoTexture,
     envMapPosition |-> 0, envMapSize |-> 0,
     fragmentShader |-> reflectionsFragmentShader]

\* TemporalResolvePass.setSize: reallocates its buffers; the sample counter is
\* reset from outside, not here
TemporalResolvePass_setSize(s, width, height) ==
    [s EXCEPT !.tr.width = width, !.tr.height = height,
              !.log = Append(@, Event("tr.setSize", width, height, 0))]

\* ReflectionsPass.setSize
ReflectionsPass_setSize(s, width, height) ==
    [s EXCEPT !.rp.width = width, !.rp.height = height,
              !.log = Append(@, Event("rp.setSize", width, height, 0))]

\* ReflectionsPass.render: one draw of the ray-marcher
ReflectionsPass_render(s) ==
    [s EXCEPT !.log = Append(@, Event("rp.render", 0, 0, 0))]

\* TemporalResolvePass.render: one draw of the compose shader with the current
\* sample count, reading one accumulation buffer and writing the other; then the
\* two buffers swap roles and the sample count goes up by one
TemporalResolvePass_render(s) ==
    [s EXCEPT !.log = Append(@, Event("tr.render", s.tr.samples, s.tr.read, s.tr.write))
                        \o <<Event("tr.samples++", s.tr.samples + 1, 0, 0)>>,
              !.tr.read = s.tr.write,
              !.tr.write = s.tr.read,
              !.tr.samples = @ + 1]

\* useBoxProjectedEnvMap(material, position, size): sets the define and puts the
\* box-projection declarations, with the world position varying, before the shader
useBoxProjectedEnvMap(s, position, size) ==
    [s EXCEPT !.rp.defines["BOX_PROJECTED_ENV_MAP"] = 0,
              !.rp.fragmentShader = <<"varying", "vec3", "vWorldPosition", ";">> \o @]

\* setupEnvMap(material, envMap, size): binds the texture
setupEnvMap(s, envMap) ==
    [s EXCEPT !.rp.envMap = envMap]

-----------------------------------------------------------------------------
(* SSREffect.  An operator takes the object s (the fields of the effect,  *)
(* the options and needsUpdate closed over by the accessors, the set of    *)
(* keys whose accessor is defined) and gives the object after the call.    *)

\* this[key] read through the accessor: undefined until defineProperty ran for key
Get(s, key) == IF key \in s.defined THEN s.options[key] ELSE Undefined

\* setSize without the early return: every call resizes
setSize_NoDedupe(s, width, height, force) ==
    LET s1 == TemporalResolvePass_setSize(s, width, height)
        s2 == ReflectionsPass_setSize(s1, width, height)
    IN [s2 EXCEPT !.lastSize =
           [width |-> width,
            height |-> height,
            resolutionScale |-> Get(s, "resolutionScale"),
            velocityResolutionScale |-> Get(s, "velocityResolutionScale")]]

\* setSize whose early return does not look at force
setSize_ForceIgnored(s, width, height, force) ==
    IF /\ width = s.lastSize.width
       /\ height = s.lastSize.height
       /\ Get(s, "resolutionScale") = s.lastSize.resolutionScale
       /\ Get(s, "velocityResolutionScale") = s.lastSize.velocityResolutionScale
    THEN s
    ELSE setSize_NoDedupe(s, width, height, force)

\* SSREffect.setSize(width, height, force = false)
\* setSize that resizes the passes without recording what it propagated
setSize_StaleSnapshot(s, width, height, force) ==
    IF /\ ~force
       /\ width = s.lastSize.width
       /\ height = s.lastSize.height
       /\ Get(s, "resolutionScale") = s.lastSize.resolutionScale
       /\ Get(s, "velocityResolutionScale") = s.lastSize.velocityResolutionScale
    THEN s
    ELSE ReflectionsPass_setSize(TemporalResolvePass_setSize(s, width, height), width, height)

setSize(s, width, height, force) ==
    IF /\ ~force
       /\ width = s.lastSize.width
       /\ height = s.lastSize.height
       /\ Get(s, "resolutionScale") = s.lastSize.resolutionScale
       /\ Get(s, "velocityResolutionScale") = s.lastSize.velocityResolutionScale
    THEN s
    ELSE LET s1 == TemporalResolvePass_setSize(s, width, height)
             s2 == ReflectionsPass_setSize(s1, width, height)
         IN [s2 EXCEPT !.lastSize =
                [width |-> width,
                 height |-> height,
                 resolutionScale |-> Get(s, "resolutionScale"),
                 velocityResolutionScale |-> Get(s, "velocityResolutionScale")]]

\* the default case without the test that the uniform exists: writing the value
\* of a uniform that is not there throws a TypeError
SetterDefault_NoUniformCheck(s, key, value) ==
    IF key \in reflectionPassFullscreenMaterialUniformsKeys
    THEN [s EXCEPT !.rp.uniforms[key] = value]
    ELSE [s EXCEPT !.log = Append(@, Event("throw", 0, 0, 0))]

\* the default case of the switch: the key must be a uniform of the ray-marcher
SetterDefault(s, key, value) ==
    IF key \in reflectionPassFullscreenMaterialUniformsKeys
    THEN [s EXCEPT !.rp.uniforms[key] = value]
    ELSE s

\* the switch of the accessor's set(value), after the option is stored
SetterSwitch(s, key, value) ==
    CASE key = "resolutionScale" ->
            setSize(s, s.options["width"], s.options["height"], FALSE)
      [] key = "velocityResolutionScale" ->
            setSize([s EXCEPT !.tr.velocityResolutionScale = value],
                    s.options["width"], s.options["height"], TRUE)
      [] key = "width" ->
            IF value = Undefined THEN s
            ELSE setSize(s, value * s.dpr, s.options["height"], FALSE)
      [] key = "height" ->
            IF value = Undefined THEN s
            ELSE setSize(s, s.options["width"], value * s.dpr, FALSE)
      [] key \in {"blurMix", "blurSharpness", "blurKernelSize"} ->
            [s EXCEPT !.uniforms[key] = value]
      [] key \in {"MAX_STEPS", "NUM_BINARY_SEARCH_STEPS"} ->
            [s EXCEPT !.rp.defines[key] = ParseInt(value),
                      !.rp.needsUpdate = s.needsUpdate,
                      !.log = Append(@, Event("rp.needsUpdate",
                                              IF s.needsUpdate THEN 1 ELSE 0, 0, 0))]
      [] key = "ALLOW_MISSED_RAYS" ->
            [s EXCEPT !.rp.defines[key] = IF Truthy(value) THEN 0 ELSE Absent,
                      !.rp.needsUpdate = s.needsUpdate,
                      !.log = Append(@, Event("rp.needsUpdate",
                                              IF s.needsUpdate THEN 1 ELSE 0, 0, 0))]
      [] key = "CLAMP_RADIUS" ->
            [s EXCEPT !.tr.defines[key] = MathRound(value),
                      !.tr.needsUpdate = s.needsUpdate,
                      !.log = Append(@, Event("tr.needsUpdate",
                                              IF s.needsUpdate THEN 1 ELSE 0, 0, 0))]
      [] key \in {"temporalResolveMix", "temporalResolveCorrection", "colorExponent"} ->
            [s EXCEPT !.tr.uniforms[key] = value]
      [] OTHER -> SetterDefault(s, key, value)

\* the accessor's set(value) skipping an unchanged value during construction too
Setter_SkipsDuringConstruction(s, key, value) ==
    IF s.options[key] = value THEN s
    ELSE LET s1 == [s EXCEPT !.options[key] = value]
             s2 == IF key \notin noResetSamplesProperties
                   THEN setSize([s1 EXCEPT !.samples = 0],
                                s1.options["width"], s1.options["height"], TRUE)
                   ELSE s1
         IN SetterSwitch(s2, key, value)

\* the accessor's set(value) for key
Setter(s, key, value) ==
    IF s.options[key] = value /\ s.needsUpdate THEN s
    ELSE LET s1 == [s EXCEPT !.options[key] = value]
             s2 == IF key \notin noResetSamplesProperties
                   THEN setSize([s1 EXCEPT !.samples = 0],
                                s1.options["width"], s1.options["height"], TRUE)
                   ELSE s1
         IN SetterSwitch(s2, key, value)

\* the loop of makeOptionsReactive from the i-th key on: define the accessor,
\* then apply the option through it
RECURSIVE ReactiveLoop(_, _)
ReactiveLoop(s, i) ==
    IF i > Len(KeyOrder) THEN s
    ELSE LET key == KeyOrder[i]
             s1 == [s EXCEPT !.defined = @ \cup {key}]
         IN ReactiveLoop(Setter(s1, key, s1.options[key]), i + 1)

\* SSREffect.makeOptionsReactive(options)
makeOptionsReactive(s) ==
    [ReactiveLoop([s EXCEPT !.needsUpdate = FALSE], 1) EXCEPT !.needsUpdate = TRUE]

\* new SSREffect(scene, camera, options)
Constructor(opts, ratio) ==
    LET s0 == [options |-> opts,
               dpr |-> ratio,
               defined |-> {},
               needsUpdate |-> FALSE,
               samples |-> Undefined,
               uniforms |-> [u \in {"samples", "blurMix", "blurSharpness",
                                    "blurKernelSize"} |-> 0],
               lastSize |-> [width |-> opts["width"],
                             height |-> opts["height"],
                             resolutionScale |-> opts["resolutionScale"],
                             velocityResolutionScale |-> opts["velocityResolutionScale"]],
               tr |-> NewTemporalResolvePass,
               rp |-> NewReflectionsPass,
               usingBoxProjectedEnvMap |-> FALSE,
               log |-> <<>>]
        s1 == setSize(s0, opts["width"], opts["height"], FALSE)
    IN makeOptionsReactive(s1)

\* SSREffect.generateBoxProjectedEnvMapFallback(renderer, position, size, envMapSize)
generateBoxProjectedEnvMapFallback(s, position, size, envMapSize) ==
    LET envMap == [kind |-> "box", position |-> position, size |-> envMapSize]
        s1 == useBoxProjectedEnvMap(s, position, size)
        s2 == [s1 EXCEPT !.rp.fragmentShader =
                  ReplaceFirst(ReplaceFirst(@, <<"vec3", "worldPos">>, <<"worldPos">>),
                               <<"varying", "vec3", "vWorldPosition", ";">>,
                               <<"vec3", "worldPos", ";">>),
                         !.rp.envMapPosition = position,
                         !.rp.envMapSize = size]
    IN [setupEnvMap(s2, envMap) EXCEPT !.usingBoxProjectedEnvMap = TRUE]

\* SSREffect.deleteeBoxProjectedEnvMapFallback()
deleteeBoxProjectedEnvMapFallback(s) ==
    [s EXCEPT !.rp.envMap = NoTexture,
              !.rp.fragmentShader =
                  ReplaceFirst(@, <<"worldPos", "=">>, <<"vec3", "worldPos", "=">>),
              !.rp.defines["BOX_PROJECTED_ENV_MAP"] = Absent,
              !.rp.needsUpdate = TRUE,
              !.usingBoxProjectedEnvMap = FALSE]

\* update that composes before it renders the reflections of the frame
update_ResolverFirst(s, sceneEnvMap) ==
    LET s1 == IF ~s.usingBoxProjectedEnvMap /\ sceneEnvMap # NoTexture
              THEN setupEnvMap(s, sceneEnvMap)
              ELSE s
        s2 == [s1 EXCEPT !.uniforms["samples"] = s1.tr.samples,
                         !.log = Append(@, Event("uniform.samples", s1.tr.samples, 0, 0))]
        s3 == TemporalResolvePass_render(s2)
    IN ReflectionsPass_render(s3)

\* update that renders the resolver twice in a frame
update_ResolvesTwice(s, sceneEnvMap) ==
    LET s1 == IF ~s.usingBoxProjectedEnvMap /\ sceneEnvMap # NoTexture
              THEN setupEnvMap(s, sceneEnvMap)
              ELSE s
        s2 == [s1 EXCEPT !.uniforms["samples"] = s1.tr.samples,
                         !.log = Append(@, Event("uniform.samples", s1.tr.samples, 0, 0))]
        s3 == ReflectionsPass_render(s2)
    IN TemporalResolvePass_render(TemporalResolvePass_render(s3))

\* SSREffect.update(renderer, inputBuffer); sceneEnvMap is the texture the
\* traversal of the scene finds, NoTexture when the scene has no environment
update(s, sceneEnvMap) ==
    LET s1 == IF ~s.usingBoxProjectedEnvMap /\ sceneEnvMap # NoTexture
              THEN setupEnvMap(s, sceneEnvMap)
              ELSE s
        s2 == [s1 EXCEPT !.uniforms["samples"] = s1.tr.samples,
                         !.log = Append(@, Event("uniform.samples", s1.tr.samples, 0, 0))]
        s3 == ReflectionsPass_render(s2)
    IN TemporalResolvePass_render(s3)

-----------------------------------------------------------------------------
(* The controller as a state machine: the state after construction, then   *)
(* one action per public call.                                             *)

\* the sizes a controller is constructed with and a caller passes to setSize
Sizes == {2, 3}

\* the device pixel ratios of the window
DevicePixelRatios == {1, 2}

\* the arguments of the environment fallback
Positions == {1, 2}
BoxSizes == {1}
EnvMapSizes == {1}

\* the texture update finds in the scene, when the scene has an environment
SceneEnvMap == [kind |-> "scene", position |-> 0, size |-> 0]

\* the last call: its name, its arguments, and whether the size it was given
\* matched the snapshot when it was made
NoCall == [op |-> "new", key |-> "", value |-> 0,
           width |-> 0, height |-> 0, force |-> FALSE, same |-> FALSE]

\* the keys the design document exempts from resampling
AllowList == {"blurMix", "blurSharpness", "blurKernelSize"}

\* width, height and the two current scales all equal the snapshot
MatchesSnapshot(width, height) ==
    /\ width = lastSize.width
    /\ height = lastSize.height
    /\ options["resolutionScale"] = lastSize.resolutionScale
    /\ options["velocityResolutionScale"] = lastSize.velocityResolutionScale

IdlePixel == [mode |-> "idle"]

\* the object the variables hold, at the start of a call
This ==
    [options |-> options, dpr |-> dpr, defined |-> Keys, needsUpdate |-> TRUE,
     samples |-> samples, uniforms |-> uniforms, lastSize |-> lastSize,
     tr |-> tr, rp |-> rp, usingBoxProjectedEnvMap |-> usingBoxProjectedEnvMap,
     log |-> <<>>]

\* the variables after a call that left the object s
Becomes(s) ==
    /\ options' = s.options
    /\ dpr' = s.dpr
    /\ samples' = s.samples
    /\ uniforms' = s.uniforms
    /\ lastSize' = s.lastSize
    /\ tr' = s.tr
    /\ rp' = s.rp
    /\ usingBoxProjectedEnvMap' = s.usingBoxProjectedEnvMap
    /\ log' = s.log
    /\ nCalls' = nCalls + 1
    /\ px' = px

\* whether a call reallocated the buffers of a pass
Reallocated(l) == \E i \in 1..Len(l) : l[i].ev \in {"tr.setSize", "rp.setSize"}

Init ==
    \E w \in Sizes, h \in Sizes, ratio \in DevicePixelRatios :
        LET s == Constructor(DefaultOptions(w, h), ratio)
        IN /\ options = s.options
           /\ dpr = s.dpr
           /\ samples = s.samples
           /\ uniforms = s.uniforms
           /\ lastSize = s.lastSize
           /\ tr = s.tr
           /\ rp = s.rp
           /\ usingBoxProjectedEnvMap = s.usingBoxProjectedEnvMap
           /\ log = s.log
           /\ call = NoCall
           /\ sinceReset = 0
           /\ nCalls = 0
           /\ px = IdlePixel

\* effect[key] = value
SetParameter(key, value) ==
    /\ nCalls < MaxCalls
    /\ LET s == Setter(This, key, value)
       IN /\ Becomes(s)
          /\ sinceReset' = IF \/ key \notin AllowList /\ options[key] # value
                              \/ Reallocated(s.log)
                           THEN 0 ELSE sinceReset
    /\ call' = [NoCall EXCEPT !.op = "set", !.key = key, !.value = value,
                              !.same = MatchesSnapshot(options["width"], options["height"])]

\* effect.setSize(width, height, force)
SetSize(width, height, force) ==
    /\ nCalls < MaxCalls
    /\ LET s == setSize(This, width, height, force)
       IN /\ Becomes(s)
          /\ sinceReset' = IF Reallocated(s.log) THEN 0 ELSE sinceReset
    /\ call' = [NoCall EXCEPT !.op = "setSize", !.width = width, !.height = height,
                              !.force = force, !.same = MatchesSnapshot(width, height)]

\* effect.update(renderer, inputBuffer)
Update(sceneEnvMap) ==
    /\ nCalls < MaxCalls
    /\ Becomes(update(This, sceneEnvMap))
    /\ sinceReset' = sinceReset + 1
    /\ call' = [NoCall EXCEPT !.op = "update"]

\* effect.generateBoxProjectedEnvMapFallback(renderer, position, size, envMapSize)
EnableEnvironmentFallback(position, size, envMapSize) ==
    /\ nCalls < MaxCalls
    /\ Becomes(generateBoxProjectedEnvMapFallback(This, position, size, envMapSize))
    /\ sinceReset' = sinceReset
    /\ call' = [NoCall EXCEPT !.op = "enable", !.value = position]

\* effect.deleteeBoxProjectedEnvMapFallback()
DisableEnvironmentFallback ==
    /\ nCalls < MaxCalls
    /\ Becomes(deleteeBoxProjectedEnvMapFallback(This))
    /\ sinceReset' = sinceReset
    /\ call' = [NoCall EXCEPT !.op = "disable"]

Next ==
    \/ \E key \in Keys : \E value \in Values(key) : SetParameter(key, value)
    \/ \E width \in Sizes, height \in Sizes, force \in BOOLEAN :
            SetSize(width, height, force)
    \/ \E sceneEnvMap \in {NoTexture, SceneEnvMap} : Update(sceneEnvMap)
    \/ \E position \in Positions, size \in BoxSizes, envMapSize \in EnvMapSizes :
            EnableEnvironmentFallback(position, size, envMapSize)
    \/ DisableEnvironmentFallback

Spec == Init /\ [][Next]_vars

\* a controller that is only configured through its accessors
NextAssign == \E key \in Keys : \E value \in Values(key) : SetParameter(key, value)

SpecAssign == Init /\ [][NextAssign]_vars

-----------------------------------------------------------------------------
(* The fragment shader of ComposeReflectionsPass, for one pixel.            *)
(*                                                                         *)
(* A colour channel is an integer count of quarter-thousandths (4000 is    *)
(* 1.0), the texels read are even counts so that halving them is exact.    *)
(* A computed float is a fraction [num, den]; den = 0 is what a division   *)
(* by zero leaves (no number).                                             *)

\* largest uniform samples value a pixel is resolved with
MaxPixelSamples == 3

\* #define EULER 2.718281828459045, to three decimals
EulerNum == 2718
EulerDen == 1000

\* 0.001, the length under which the history counts as empty
HistoryEpsilon == 4

\* 0.5, added to the input alpha
AlphaBias == 2000

Frac(n, d) == [num |-> n, den |-> d]

\* a / b for fractions a, b
FracDiv(a, b) == Frac(a.num * b.den, a.den * b.num)

\* mix(x, y, w) = x * (1 - w) + y * w for integers x, y and a fraction w
mix(x, y, w) == Frac(x * (w.den - w.num) + y * w.num, w.den)

mix3(x, y, w) == <<mix(x[1], y[1], w), mix(x[2], y[2], w), mix(x[3], y[3], w)>>

\* length(v) <= eps
NotLongerThan(v, eps) == v[1] * v[1] + v[2] * v[2] + v[3] * v[3] <= eps * eps

\* length(v) < eps, as a comparison of squares
ShorterThan(v, eps) == v[1] * v[1] + v[2] * v[2] + v[3] * v[3] < eps * eps

\* float mixVal = 1. / samples, without the division by EULER
mixVal_NoEuler(n) == FracDiv(Frac(1, 1), Frac(n, 1))

\* float mixVal = 1. / samples; mixVal /= EULER;
mixVal(n) == FracDiv(FracDiv(Frac(1, 1), Frac(n, 1)), Frac(EulerNum, EulerDen))

\* main() with the history taken from the reprojected texel alone
fragmentShader_ProjectedOnly(temporal, inputTexel, lastTexel, projectedTexel, n) ==
    IF temporal
    THEN LET last == projectedTexel.rgb
             newColor == IF ShorterThan(last, HistoryEpsilon)
                         THEN mix3(last, [i \in 1..3 |-> last[i] + inputTexel.rgb[i]],
                                   Frac(1, 4))
                         ELSE mix3(last, inputTexel.rgb, mixVal(n))
             blurMix == mix(projectedTexel.a, inputTexel.a + AlphaBias, mixVal(n))
         IN [rgb |-> newColor, a |-> blurMix]
    ELSE [rgb |-> [i \in 1..3 |-> Frac(inputTexel.rgb[i], 1)],
          a |-> Frac(inputTexel.a, 1)]

\* main(): the colour written for a pixel, from the input texel, the history texel
\* at vUv (lastFrameReflectionsTexel), the history texel at vUv - velUv
\* (lastFrameReflectionsProjectedTexel), and the uniform samples
fragmentShader(temporal, inputTexel, lastTexel, projectedTexel, n) ==
    IF temporal
    THEN LET sum == [i \in 1..3 |-> lastTexel.rgb[i]
                                      + projectedTexel.rgb[i]]
             last == [i \in 1..3 |-> sum[i] \div 2]
             blended == mix3(last, inputTexel.rgb, mixVal(n))
             newColor == IF ShorterThan(last, HistoryEpsilon)
                         THEN mix3(last, [i \in 1..3 |-> last[i] + inputTexel.rgb[i]],
                                   Frac(1, 4))
                         ELSE blended
             blurMix == mix(lastTexel.a, inputTexel.a + AlphaBias, mixVal(n))
         IN [rgb |-> newColor, a |-> blurMix]
    ELSE [rgb |-> [i \in 1..3 |-> Frac(inputTexel.rgb[i], 1)],
          a |-> Frac(inputTexel.a, 1)]

\* the colours and alphas of the texels a pixel is resolved from
Colors == {<<0, 0, 0>>, <<2, 0, 0>>, <<4, 0, 0>>, <<80, 40, 0>>}
Alphas == {0, 4000}
Texels == [rgb : Colors, a : Alphas]

\* one pixel is resolved, once in a run
ResolvePixel(temporal, inputTexel, last, projected, n) ==
    /\ px = IdlePixel
    /\ px' = [mode |-> "resolved", temporal |-> temporal, inputTexel |-> inputTexel,
              last |-> last, projected |-> projected, samples |-> n,
              mixVal |-> mixVal(n),
              out |-> fragmentShader(temporal, inputTexel, last, projected, n)]
    /\ UNCHANGED <<options, dpr, samples, uniforms, lastSize, tr, rp,
                   usingBoxProjectedEnvMap, log, call, sinceReset, nCalls>>

NextShader ==
    \E temporal \in BOOLEAN, inputTexel \in Texels, last \in Texels,
       projected \in Texels, n \in 0..MaxPixelSamples :
        ResolvePixel(temporal, inputTexel, last, projected, n)

SpecShader == Init /\ [][NextShader]_vars

-----------------------------------------------------------------------------
(* Properties.  SampleCount is tr.samples: the counter update publishes to  *)
(* the samples uniform and the resolver's render increments.               *)

\* the kinds of the events of a log, in order
Kinds(l) == [i \in 1..Len(l) |-> l[i].ev]

\* how many events of a kind a log holds
Count(l, kind) == Cardinality({i \in 1..Len(l) : l[i].ev = kind})

\* C1: every assignment that changes a key outside the allow-list leaves
\* SampleCount at 0 and resizes both passes during the call, also when the size
\* and the scales match the snapshot
C1_ChangeResetsSampleCountAndResizes ==
    [][(call'.op = "set" /\ call'.key \notin AllowList
            /\ options[call'.key] # call'.value)
        => /\ tr'.samples = 0
           /\ Count(log', "tr.setSize") >= 1
           /\ Count(log', "rp.setSize") >= 1]_vars

\* C2: an assignment to an allow-listed key writes the stored option and the
\* uniform of the same name on the final effect, and nothing else: SampleCount,
\* the snapshot, both passes (buffers, defines) are unchanged, no pass is resized
C2_AllowListedKeyWritesOnlyItsUniform ==
    [][(call'.op = "set" /\ call'.key \in AllowList)
        => /\ tr' = tr
           /\ rp' = rp
           /\ lastSize' = lastSize
           /\ samples' = samples
           /\ usingBoxProjectedEnvMap' = usingBoxProjectedEnvMap
           /\ log' = <<>>
           /\ options' = [options EXCEPT ![call'.key] = call'.value]
           /\ uniforms' = [uniforms EXCEPT ![call'.key] = call'.value]]_vars

\* C2 happens: an allow-listed key was changed while samples had accumulated
C2_Witness ==
    /\ call.op = "set"
    /\ call.key = "blurMix"
    /\ call.value = 1
    /\ uniforms["blurMix"] = 1
    /\ tr.samples > 0

\* C3: SampleCount is the number of updates completed since the most recent of
\* construction, a change of a key outside the allow-list, a buffer reallocation
C3_SampleCountCountsUpdatesSinceReset ==
    tr.samples = sinceReset

\* C4: an update publishes the current SampleCount, then renders the ray-marcher,
\* then renders the resolver, then raises SampleCount by one, each exactly once
C4_UpdateOrder ==
    [][call'.op = "update"
        => /\ Kinds(log') = <<"uniform.samples", "rp.render", "tr.render", "tr.samples++">>
           /\ log'[1].a = tr.samples
           /\ uniforms'["samples"] = tr.samples
           /\ tr'.samples = tr.samples + 1]_vars

\* C4 happens: a second update has completed
C4_Witness ==
    /\ call.op = "update"
    /\ tr.samples = 2
    /\ uniforms["samples"] = 1

\* C5: the resolver never renders with a sample count below 1
C5_ResolverSampleCountAtLeastOne ==
    \A i \in 1..Len(log) : log[i].ev = "tr.render" => log[i].a >= 1

\* C6: setSize without force is a no-op when width, height and both scales
\* match the snapshot, so the second of two identical calls reallocates nothing
C6_SetSizeDeduplicates ==
    [][/\ (call'.op = "setSize" /\ ~call'.force /\ MatchesSnapshot(call'.width, call'.height))
            => (log' = <<>> /\ lastSize' = lastSize /\ tr' = tr /\ rp' = rp)
       /\ (call.op = "setSize" /\ call'.op = "setSize" /\ ~call'.force
              /\ call'.width = call.width /\ call'.height = call.height)
            => log' = <<>>]_vars

\* C6 happens: a setSize matching the snapshot was made and did nothing
C6_Witness ==
    /\ call.op = "setSize"
    /\ ~call.force
    /\ call.same
    /\ log = <<>>

\* C7: setSize with force resizes the resolver and the ray-marcher and records
\* the snapshot, whether or not anything differs from the previous snapshot
C7_ForcedSetSizeAlwaysResizes ==
    [][(call'.op = "setSize" /\ call'.force)
        => /\ log' = <<Event("tr.setSize", call'.width, call'.height, 0),
                       Event("rp.setSize", call'.width, call'.height, 0)>>
           /\ tr'.width = call'.width /\ tr'.height = call'.height
           /\ rp'.width = call'.width /\ rp'.height = call'.height
           /\ lastSize' = [width |-> call'.width,
                           height |-> call'.height,
                           resolutionScale |-> options["resolutionScale"],
                           velocityResolutionScale |-> options["velocityResolutionScale"]]]_vars

\* C7 happens: a forced setSize with nothing different from the snapshot resized
C7_Witness ==
    /\ call.op = "setSize"
    /\ call.force
    /\ call.same
    /\ Len(log) = 2

\* what the environment fallback leaves on the ray-marcher
EnvironmentState(s) ==
    [fragmentShader |-> s.rp.fragmentShader,
     defines |-> s.rp.defines,
     envMap |-> s.rp.envMap,
     envMapPosition |-> s.rp.envMapPosition,
     envMapSize |-> s.rp.envMapSize,
     usingBoxProjectedEnvMap |-> s.usingBoxProjectedEnvMap]

\* C8: on a fresh controller enable, disable, enable leaves the ray-marcher as a
\* single enable does, and disable after enable restores the shader source
C8_EnableDisableEnable ==
    nCalls = 0 =>
        \A position \in Positions, size \in BoxSizes, envMapSize \in EnvMapSizes :
            LET e == generateBoxProjectedEnvMapFallback(This, position, size, envMapSize)
                ed == deleteeBoxProjectedEnvMapFallback(e)
                ede == generateBoxProjectedEnvMapFallback(ed, position, size, envMapSize)
            IN /\ EnvironmentState(ede) = EnvironmentState(e)
               /\ ed.rp.fragmentShader = This.rp.fragmentShader

HistoryOf(p) == [i \in 1..3 |-> (p.last.rgb[i] + p.projected.rgb[i]) \div 2]

\* whether the history colour of a resolved pixel is shorter than 0.001
Disoccluded(p) ==
    LET h == HistoryOf(p)
    IN h[1] * h[1] + h[2] * h[2] + h[3] * h[3] < HistoryEpsilon * HistoryEpsilon

\* C10: in temporal mode a pixel whose history is shorter than 0.001 resolves to
\* mix(history, history + current, 0.25) whatever the sample count, every other
\* pixel to mix(history, current, 1/(n*e))
C10_DisocclusionOrBlend ==
    (px.mode = "resolved" /\ px.temporal) =>
        LET h == HistoryOf(px)
            cur == px.inputTexel.rgb
        IN IF Disoccluded(px)
           THEN px.out.rgb = mix3(h, [i \in 1..3 |-> h[i] + cur[i]], Frac(1, 4))
           ELSE px.out.rgb = mix3(h, cur, Frac(EulerDen, px.samples * EulerNum))

\* C10 happens: a pixel with a short, non-zero history and a bright input was
\* resolved, and the two rules give different colours for it
C10_Witness ==
    /\ px.mode = "resolved"
    /\ px.temporal
    /\ px.samples = 2
    /\ Disoccluded(px)
    /\ HistoryOf(px) # <<0, 0, 0>>
    /\ px.inputTexel.rgb = <<80, 40, 0>>
    /\ px.out.rgb # mix3(HistoryOf(px), px.inputTexel.rgb,
                         Frac(EulerDen, px.samples * EulerNum))

\* a < b for fractions with positive denominators
FracLess(a, b) == a.num * b.den < b.num * a.den

Resizes(l) == {i \in 1..Len(l) : l[i].ev \in {"tr.setSize", "rp.setSize"}}

\* C12: assigning undefined to width or height propagates no resize with an
\* undefined dimension, keeps the snapshot's width and height, raises no error
C12_UndefinedDimensionIsNoOp ==
    [][(call'.op = "set" /\ call'.key \in {"width", "height"} /\ call'.value = Undefined)
        => /\ \A i \in Resizes(log') : log'[i].a # Undefined /\ log'[i].b # Undefined
           /\ lastSize'.width = lastSize.width
           /\ lastSize'.height = lastSize.height
           /\ Count(log', "throw") = 0]_vars

\* the option keys that have no case of their own in the setter and name no
\* uniform of the ray-marcher
Unrecognized == {"BOX_BLUR", "DILATION"}

\* what an assignment must not touch when its key is unrecognized: the uniforms
\* and defines of the effect and of both passes, the marks for recompilation,
\* and no error
LeavesShadersAlone ==
    /\ uniforms' = uniforms
    /\ rp'.uniforms = rp.uniforms /\ rp'.defines = rp.defines
    /\ tr'.uniforms = tr.uniforms /\ tr'.defines = tr.defines
    /\ rp'.needsUpdate = rp.needsUpdate /\ tr'.needsUpdate = tr.needsUpdate
    /\ Count(log', "throw") = 0

\* C13 as claimed: an assignment to an unrecognized key writes no uniform and no
\* define, leaves SampleCount, propagates no resize and raises no error
C13_UnrecognizedKeyHasNoEffect ==
    [][(call'.op = "set" /\ call'.key \in Unrecognized)
        => LeavesShadersAlone /\ tr'.samples = tr.samples /\ Resizes(log') = {}]_vars

\* C13 amended: such an assignment writes no uniform and no define and raises no
\* error; when it changes the value it stores it and, as for every key outside
\* the allow-list, zeroes the effect's samples field and forces one resize of
\* both passes with the current options.width and options.height
C13_UnrecognizedKeyOnlyForcesResize ==
    [][(call'.op = "set" /\ call'.key \in Unrecognized)
        => /\ LeavesShadersAlone
           /\ options' = [options EXCEPT ![call'.key] = call'.value]
           /\ IF options[call'.key] = call'.value
              THEN log' = <<>> /\ samples' = samples
              ELSE /\ samples' = 0
                   /\ log' = <<Event("tr.setSize", options["width"], options["height"], 0),
                               Event("rp.setSize", options["width"], options["height"], 0)>>]_vars

\* C13 happens: an unrecognized key was changed and the passes were resized
C13_Witness ==
    /\ call.op = "set"
    /\ call.key = "BOX_BLUR"
    /\ options["BOX_BLUR"] = 0
    /\ Len(log) = 2
    /\ tr.samples > 0

\* C14: SampleCount is never negative, and it is 0 right after every setSize
\* that propagated a resize, whether setSize was called directly or by a setter
C14_SampleCountZeroAfterResize ==
    /\ tr.samples >= 0
    /\ (call.op \in {"set", "setSize"} /\ Reallocated(log)) => tr.samples = 0

\* C15: after construction the size last propagated to the ray-marcher and to
\* the resolver is the snapshot's, and the snapshot's two scales are the current
\* values of resolutionScale and velocityResolutionScale
C15_SnapshotMatchesPasses ==
    /\ rp.width = lastSize.width /\ rp.height = lastSize.height
    /\ tr.width = lastSize.width /\ tr.height = lastSize.height
    /\ lastSize.resolutionScale = options["resolutionScale"]
    /\ lastSize.velocityResolutionScale = options["velocityResolutionScale"]

\* C15 happens: a setter changed a scale and a size after construction
C15_Witness ==
    /\ nCalls >= 2
    /\ call.op = "set"
    /\ lastSize.resolutionScale = 2
    /\ lastSize.width = 6
    /\ tr.width = 6

\* the colour and confidence a temporal pixel resolves to from a history colour
\* h and a history confidence c, by the blend law and the disocclusion rule
ResolvedFrom(p, h, c) ==
    LET cur == p.inputTexel.rgb
        w == Frac(EulerDen, p.samples * EulerNum)
    IN [rgb |-> IF h[1] * h[1] + h[2] * h[2] + h[3] * h[3] < HistoryEpsilon * HistoryEpsilon
                THEN mix3(h, [i \in 1..3 |-> h[i] + cur[i]], Frac(1, 4))
                ELSE mix3(h, cur, w),
        a |-> mix(c, p.inputTexel.a + AlphaBias, w)]

\* C16 as claimed: in temporal mode the history colour and confidence of the
\* blend are those of the previous buffer at currentUV - velocity alone; the
\* sample at currentUV contributes nothing
C16_HistoryIsReprojectedOnly ==
    (px.mode = "resolved" /\ px.temporal /\ px.samples >= 1) =>
        px.out = ResolvedFrom(px, px.projected.rgb, px.projected.a)

\* C16 amended: in temporal mode the history colour is the mean of the previous
\* buffer at currentUV - velocity and at currentUV, and the history confidence is
\* the previous buffer's at currentUV, not reprojected
C16_HistoryAveragesBothSamples ==
    (px.mode = "resolved" /\ px.temporal /\ px.samples >= 1) =>
        px.out = ResolvedFrom(px,
                              [i \in 1..3 |-> (px.last.rgb[i] + px.projected.rgb[i]) \div 2],
                              px.last.a)

\* C16 happens: the two history samples of a resolved pixel differ in colour and
\* in confidence, and the un-reprojected one shows in the output
C16_Witness ==
    /\ px.mode = "resolved"
    /\ px.temporal
    /\ px.samples = 2
    /\ px.last.rgb = <<80, 40, 0>>
    /\ px.projected.rgb = <<4, 0, 0>>
    /\ px.last.a # px.projected.a
    /\ px.out # ResolvedFrom(px, px.projected.rgb, px.projected.a)

\* the keys whose case in the setter writes one uniform and nothing else
UniformOnly == {"temporalResolveMix", "temporalResolveCorrection", "colorExponent",
                "intensity"}

\* the marks for recompilation a call made, on either material
Marks(l) == {i \in 1..Len(l) : l[i].ev \in {"rp.needsUpdate", "tr.needsUpdate"}}

\* C17: after construction a change of MAX_STEPS or NUM_BINARY_SEARCH_STEPS
\* writes the value cut to an integer as the ray-marcher's define and marks its
\* material; a change of ALLOW_MISSED_RAYS leaves the define present exactly when
\* the value is truthy and marks the material; allow-listed and uniform-only keys
\* mark no material, nor does construction
C17_DefinesRecompile ==
    /\ nCalls = 0 => (~rp.needsUpdate /\ ~tr.needsUpdate
                        /\ \A i \in Marks(log) : log[i].a = 0)
    /\ [][/\ (call'.op = "set" /\ options[call'.key] # call'.value
                /\ call'.key \in {"MAX_STEPS", "NUM_BINARY_SEARCH_STEPS"})
              => /\ rp'.defines[call'.key] = call'.value - (call'.value % 10)
                 /\ rp'.needsUpdate
                 /\ \E i \in Marks(log') : log'[i] = Event("rp.needsUpdate", 1, 0, 0)
          /\ (call'.op = "set" /\ options[call'.key] # call'.value
                /\ call'.key = "ALLOW_MISSED_RAYS")
              => /\ (rp'.defines[call'.key] # Absent) <=> (call'.value \notin {0, Undefined})
                 /\ rp'.needsUpdate
                 /\ \E i \in Marks(log') : log'[i] = Event("rp.needsUpdate", 1, 0, 0)
          /\ (call'.op = "set" /\ call'.key \in AllowList \cup UniformOnly)
              => /\ Marks(log') = {}
                 /\ rp'.needsUpdate = rp.needsUpdate
                 /\ tr'.needsUpdate = tr.needsUpdate]_vars

\* C17 happens: MAX_STEPS was changed to 30.5 and the define is 30
C17_Witness ==
    /\ call.op = "set"
    /\ call.key = "MAX_STEPS"
    /\ call.value = 305
    /\ rp.defines["MAX_STEPS"] = 300
    /\ rp.needsUpdate
    /\ Marks(log) # {}

\* C18: after construction, assigning a key the value it holds changes nothing,
\* also outside the allow-list: no reset, no resize, no uniform, no define, no
\* mark.  Construction does not skip: it applies every key's effect once
C18_SameValueIsNoOp ==
    /\ nCalls = 0 =>
          /\ Count(log, "tr.setSize") >= Cardinality(Keys \ AllowList)
          /\ Count(log, "rp.setSize") >= Cardinality(Keys \ AllowList)
          /\ Cardinality(Marks(log)) = 4
          /\ samples = 0
          /\ \A k \in AllowList : uniforms[k] = options[k]
          /\ \A k \in UniformOnly \ {"intensity"} : tr.uniforms[k] = options[k]
          /\ rp.uniforms["intensity"] = options["intensity"]
          /\ rp.defines["MAX_STEPS"] = options["MAX_STEPS"] - (options["MAX_STEPS"] % 10)
    /\ [][(call'.op = "set" /\ options[call'.key] = call'.value)
            => /\ log' = <<>>
               /\ UNCHANGED <<options, dpr, samples, uniforms, lastSize, tr, rp,
                              usingBoxProjectedEnvMap>>]_vars

\* C18 happens: MAX_STEPS was assigned the value it held, after an update, and
\* the sample count survived
C18_Witness ==
    /\ call.op = "set"
    /\ call.key = "MAX_STEPS"
    /\ call.value = options["MAX_STEPS"]
    /\ log = <<>>
    /\ tr.samples > 0
    /\ nCalls = 2

\* the keys whose own case in the setter calls setSize
SizeKeys == {"width", "height", "resolutionScale", "velocityResolutionScale"}

\* C19: the forced resize made when a key other than width, height,
\* resolutionScale and velocityResolutionScale changes propagates the width and
\* height of the snapshot in effect before the change, whatever the device
\* pixel ratio and the earlier assignments of width and height
C19_ForcedResizeKeepsDimensions ==
    [][(call'.op = "set" /\ call'.key \notin SizeKeys \cup AllowList
            /\ options[call'.key] # call'.value)
        => /\ Resizes(log') # {}
           /\ \A i \in Resizes(log') : /\ log'[i].a = lastSize.width
                                       /\ log'[i].b = lastSize.height
           /\ lastSize'.width = lastSize.width
           /\ lastSize'.height = lastSize.height]_vars

====
